---- MODULE Spec2Model ----
(***************************************************************************)
(* Model of the AIHW hospital-separations ETL (src/main.py).               *)
(*                                                                         *)
(* Text is modelled as a sequence of one-character strings, so that the    *)
(* regular expressions and the str methods of the code are computed on     *)
(* characters.  A spreadsheet cell is a record [k, s, n]: k = "txt" with   *)
(* its text s, k = "num" with its number n, or k = "nan" (a blank cell).   *)
(*                                                                         *)
(* The pure functions of the code are operators.  Each is exercised by a   *)
(* harness specification (SpecHeader, SpecClean, ...) whose Init draws the *)
(* argument from a bounded set and whose action applies the function.  The *)
(* run of the whole program (__main__) is the specification Spec.          *)
(***************************************************************************)
EXTENDS Integers, Sequences, FiniteSets, TLC

VARIABLES
    pc,       \* position of the running code
    arg,      \* harness: the argument of the function under check
    ret,      \* harness: its return value(s)
    env,      \* run: the outside world (DB_URL, the web site, the workbooks)
    links,    \* run: the list discover_excels() returned
    u,        \* run: index in links of the workbook being compiled
    year,     \* run: compile_all's year of the current workbook
    todo,     \* run: the eligible sheets of the current workbook not yet parsed
    frames,   \* run: compile_all's accumulator, a list of tidy tables
    tidy_df,  \* run: the unified table compile_all returned
    db,       \* run: the relations persisted in the database
    err       \* run: the exception that ended the run, "" if none

vars == <<pc, arg, ret, env, links, u, year, todo, frames, tidy_df, db, err>>

runvars == <<env, links, u, year, todo, frames, tidy_df, db, err>>

-----------------------------------------------------------------------------
(* Bounds of the model *)

\* longest raw grid given to _header_row (past the 40-row window)
MaxRows == 42

-----------------------------------------------------------------------------
(* Characters and text *)

LowerSeq == <<"a","b","c","d","e","f","g","h","i","j","k","l","m","n","o","p","q","r","s","t","u","v","w","x","y","z">>

UpperSeq == <<"A","B","C","D","E","F","G","H","I","J","K","L","M","N","O","P","Q","R","S","T","U","V","W","X","Y","Z">>

DigitSeq == <<"0","1","2","3","4","5","6","7","8","9">>

Range(s) == {s[i] : i \in 1..Len(s)}

IsUpperLetter(c) == c \in Range(UpperSeq)

IsDigit(c) == c \in Range(DigitSeq)

IsSpace(c) == c = " "

\* str.upper() on one character
UpperChar(c) ==
    IF \E i \in 1..26 : LowerSeq[i] = c
    THEN UpperSeq[CHOOSE i \in 1..26 : LowerSeq[i] = c]
    ELSE c

\* str.lower() on one character
LowerChar(c) ==
    IF \E i \in 1..26 : UpperSeq[i] = c
    THEN LowerSeq[CHOOSE i \in 1..26 : UpperSeq[i] = c]
    ELSE c

MapSeq(Op(_), s) == [i \in 1..Len(s) |-> Op(s[i])]

Upper(s) == MapSeq(UpperChar, s)

Lower(s) == MapSeq(LowerChar, s)

Min(a, b) == IF a <= b THEN a ELSE b

\* the decimal digits of a natural number
RECURSIVE DigitsOf(_)
DigitsOf(n) ==
    IF n < 10 THEN <<DigitSeq[n + 1]>>
    ELSE Append(DigitsOf(n \div 10), DigitSeq[(n % 10) + 1])

DigitVal(c) == (CHOOSE i \in 1..10 : DigitSeq[i] = c) - 1

StartsWith(s, p) == Len(s) >= Len(p) /\ SubSeq(s, 1, Len(p)) = p

EndsWith(s, p) == Len(s) >= Len(p) /\ SubSeq(s, Len(s) - Len(p) + 1, Len(s)) = p

Contains(s, p) == \E i \in 1..(Len(s) - Len(p) + 1) : SubSeq(s, i, i + Len(p) - 1) = p

-----------------------------------------------------------------------------
(* Cells *)

Txt(s) == [k |-> "txt", s |-> s, n |-> 0]

Num(n) == [k |-> "num", s |-> <<>>, n |-> n]

NaN == [k |-> "nan", s |-> <<>>, n |-> 0]

\* str(cell)
Str(cell) ==
    CASE cell.k = "txt" -> cell.s
      [] cell.k = "num" -> DigitsOf(cell.n)
      [] OTHER -> <<"n","a","n">>

-----------------------------------------------------------------------------
(* State codes and the header row *)

STATE_CODES == {
    <<"N","S","W">>, <<"V","I","C">>, <<"Q","L","D">>, <<"S","A">>, <<"W","A">>,
    <<"T","A","S">>, <<"N","T">>, <<"A","C","T">>, <<"A","U","S","T">> }

\* Python's None where a text is expected; the code tests it by truth value
\* only (if st:, if _norm_state(v)), and no state code is empty
NoCode == <<>>

\* the letters of text, upper-cased, everything else stripped
NormLetters(text) == SelectSeq(Upper(text), IsUpperLetter)

\* _norm_state on the text of a cell or label
NormText(text) ==
    LET s == NormLetters(text)
    IN  IF s \in STATE_CODES THEN s ELSE NoCode

_norm_state(cell) == NormText(Str(cell))

\* None where a row index is expected
NoRow == -1

HeaderScanLimit == 40

\* the mutant of ScanWindow: every row is examined
ScanWindowAll(df) == Len(df)

\* range(min(40, len(df)))
ScanWindow(df) == Min(HeaderScanLimit, Len(df))

\* sum(1 for v in df.iloc[i] if _norm_state(v))
StateCount(row) == Cardinality({j \in 1..Len(row) : _norm_state(row[j]) # NoCode})

\* the loop of _header_row from row i on (rows are numbered from 0)
RECURSIVE HeaderScan(_, _)
HeaderScan(df, i) ==
    IF i >= ScanWindow(df) THEN NoRow
    ELSE IF StateCount(df[i + 1]) >= 2 THEN i
    ELSE HeaderScan(df, i + 1)

_header_row(df) == HeaderScan(df, 0)

-----------------------------------------------------------------------------
(* _clean_text *)

RECURSIVE LStrip(_, _)
\* str.lstrip: drop the leading characters that are in set cs
LStrip(s, cs) == IF s # <<>> /\ Head(s) \in cs THEN LStrip(Tail(s), cs) ELSE s

RECURSIVE RStrip(_, _)
\* str.rstrip: drop the trailing characters that are in set cs
RStrip(s, cs) ==
    IF s # <<>> /\ s[Len(s)] \in cs THEN RStrip(SubSeq(s, 1, Len(s) - 1), cs) ELSE s

\* str.strip
Strip(s, cs) == RStrip(LStrip(s, cs), cs)

Whitespace == {" "}

\* _rx_tuple1 = ^\("?\s* replaced by "": an opening parenthesis at the start,
\* one quote after it if there is one, and the whitespace that follows
SubTuple1(s) ==
    IF s # <<>> /\ Head(s) = "("
    THEN LET t == Tail(s)
             q == IF t # <<>> /\ Head(t) = "\"" THEN Tail(t) ELSE t
         IN  LStrip(q, Whitespace)
    ELSE s

\* _rx_tuple2 = "?\)$ replaced by "": a closing parenthesis at the end, and
\* the one quote before it if there is one
SubTuple2(s) ==
    IF s # <<>> /\ s[Len(s)] = ")"
    THEN LET t == SubSeq(s, 1, Len(s) - 1)
         IN  IF t # <<>> /\ t[Len(t)] = "\"" THEN SubSeq(t, 1, Len(t) - 1) ELSE t
    ELSE s

\* [0-9]*\.?[0-9]+ matches all of t
IsNumberBody(t) ==
    /\ t # <<>>
    /\ \A i \in 1..Len(t) : IsDigit(t[i]) \/ t[i] = "."
    /\ Cardinality({i \in 1..Len(t) : t[i] = "."}) <= 1
    /\ IsDigit(t[Len(t)])

\* \s*[-+]?[0-9]*\.?[0-9]+ matches all of t
IsNumberTail(t) ==
    LET a == LStrip(t, Whitespace)
        b == IF a # <<>> /\ Head(a) \in {"-", "+"} THEN Tail(a) ELSE a
    IN  IsNumberBody(b)

\* the places where _rx_tuple3 = ,\s*[-+]?[0-9]*\.?[0-9]+$ matches
Tuple3Matches(s) ==
    {i \in 1..Len(s) : s[i] = "," /\ IsNumberTail(SubSeq(s, i + 1, Len(s)))}

\* _rx_tuple3 replaced by "": the text is cut at the leftmost match
SubTuple3(s) ==
    IF Tuple3Matches(s) = {} THEN s
    ELSE LET i == CHOOSE m \in Tuple3Matches(s) : \A o \in Tuple3Matches(s) : m <= o
         IN  SubSeq(s, 1, i - 1)

\* _clean_text on one value that astype(str) has turned into text
CleanStr(s) == Strip(Strip(SubTuple3(SubTuple2(SubTuple1(s))), Whitespace), {"\""})

\* _clean_text on one cell of the series
_clean_text(cell) == CleanStr(Str(cell))

-----------------------------------------------------------------------------
(* parse_sheet: the classification of the columns *)

UNNAMED == <<"u","n","n","a","m","e","d">>

CATEGORY == <<"c","a","t","e","g","o","r","y">>

PRINCIPAL_DIAGNOSIS == <<"p","r","i","n","c","i","p","a","l","_","d","i","a","g","n","o","s","i","s">>

DIMENSION_ == <<"d","i","m","e","n","s","i","o","n","_">>

TOTAL == <<"t","o","t","a","l">>

\* df.loc[:, ~df.columns.duplicated()]: the positions of the columns kept, the
\* first of each label
KeptColumns(cols) ==
    LET First(i) == \A j \in 1..(i - 1) : cols[j] # cols[i]
    IN  SelectSeq([i \in 1..Len(cols) |-> i], First)

\* str(c).strip().lower().replace(" ", "_")
Safe(c) ==
    LET Under(ch) == IF ch = " " THEN "_" ELSE ch
    IN  MapSeq(Under, Lower(Strip(c, Whitespace)))

\* the names of the columns of a frame
Names(dfcols) == {dfcols[i].name : i \in 1..Len(dfcols)}

\* the loop over df.columns from the k-th kept column on, and the rename that
\* follows it: acc holds the columns of df (src: the position the column has
\* in the sheet, name: its name), id_cols and state_cols
RECURSIVE ClassifyFrom(_, _, _, _)
ClassifyFrom(cols, kept, k, acc) ==
    IF k > Len(kept) THEN acc
    ELSE LET c == cols[kept[k]]
             st == NormText(c)
         IN  IF st # NoCode
             THEN ClassifyFrom(cols, kept, k + 1,
                    [acc EXCEPT !.dfcols = Append(@, [src |-> kept[k], name |-> st]),
                                !.state_cols = Append(@, st)])
             ELSE ClassifyFrom(cols, kept, k + 1,
                    [acc EXCEPT !.dfcols = Append(@, [src |-> kept[k], name |-> Safe(c)]),
                                !.id_cols = Append(@, Safe(c))])

ClassifyColumns(cols) ==
    ClassifyFrom(cols, KeptColumns(cols), 1,
                 [dfcols |-> <<>>, id_cols |-> <<>>, state_cols |-> <<>>])

\* df.rename(columns={old: new}): every column named old is renamed
RenameColumns(dfcols, old, new) ==
    [i \in 1..Len(dfcols) |->
        IF dfcols[i].name = old THEN [dfcols[i] EXCEPT !.name = new] ELSE dfcols[i]]

\* "First unnamed column -> category"
RenameFirstUnnamed(cs) ==
    IF cs.id_cols # <<>> /\ StartsWith(cs.id_cols[1], UNNAMED)
    THEN [cs EXCEPT !.dfcols = RenameColumns(@, cs.id_cols[1], CATEGORY),
                    !.id_cols[1] = CATEGORY]
    ELSE cs

\* the loop over enumerate(id_cols[1:], start=1) from index idx on; the slice
\* id_cols[1:] is a copy (snapshot) taken before the loop
RECURSIVE RenameLaterFrom(_, _, _)
RenameLaterFrom(cs, snapshot, idx) ==
    IF idx >= Len(snapshot) THEN cs
    ELSE LET col == snapshot[idx + 1]
             new_name == IF PRINCIPAL_DIAGNOSIS \notin Names(cs.dfcols)
                         THEN PRINCIPAL_DIAGNOSIS
                         ELSE DIMENSION_ \o DigitsOf(idx)
         IN  IF StartsWith(col, UNNAMED)
             THEN RenameLaterFrom(
                    [cs EXCEPT !.dfcols = RenameColumns(@, col, new_name),
                               !.id_cols[idx + 1] = new_name],
                    snapshot, idx + 1)
             ELSE RenameLaterFrom(cs, snapshot, idx + 1)

\* "Second unnamed column (if present) -> principal_diagnosis"
RenameLaterUnnamed(cs) == RenameLaterFrom(cs, cs.id_cols, 1)

\* the mutant of DropTotal: the column is dropped from df, id_cols keeps it
DropTotalFrameOnly(cs) ==
    LET NotTotal(col) == col.name # TOTAL
    IN  IF TOTAL \in Names(cs.dfcols)
        THEN [cs EXCEPT !.dfcols = SelectSeq(@, NotTotal)]
        ELSE cs

\* "Drop rate/helper column total"
DropTotal(cs) ==
    LET NotTotal(col) == col.name # TOTAL
        NotTotalName(name) == name # TOTAL
    IN  IF TOTAL \in Names(cs.dfcols)
        THEN [cs EXCEPT !.dfcols = SelectSeq(@, NotTotal),
                        !.id_cols = SelectSeq(@, NotTotalName)]
        ELSE cs

\* lines 78-113 of parse_sheet on the labels read_excel gave the columns
Classify(cols) == DropTotal(RenameLaterUnnamed(RenameFirstUnnamed(ClassifyColumns(cols))))

\* not (len(state_cols) < 2 or not id_cols)
Usable(cs) == ~(Len(cs.state_cols) < 2 \/ cs.id_cols = <<>>)

-----------------------------------------------------------------------------
(* parse_sheet *)

\* the label read_excel(header=hdr) gives column j (numbered from 1) of the
\* header row: "Unnamed: {j-1}" for a blank cell, the text of the cell
\* otherwise, and a repeated text X becomes X.1, X.2, ...
ReadLabel(row, j) ==
    LET base == IF row[j].k = "nan"
                THEN <<"U","n","n","a","m","e","d",":"," ">> \o DigitsOf(j - 1)
                ELSE Str(row[j])
        seen == Cardinality({i \in 1..(j - 1) : row[i].k # "nan" /\ Str(row[i]) = base})
    IN  IF row[j].k # "nan" /\ seen > 0 THEN base \o <<".">> \o DigitsOf(seen) ELSE base

ReadHeader(row) == [j \in 1..Len(row) |-> ReadLabel(row, j)]

\* the value is text made of digits only
IsDigits(t) == t # <<>> /\ \A i \in 1..Len(t) : IsDigit(t[i])

RECURSIVE IntOf(_)
\* int() of a text of digits
IntOf(t) == IF t = <<>> THEN 0 ELSE 10 * IntOf(SubSeq(t, 1, Len(t) - 1)) + DigitVal(t[Len(t)])

\* the mutant of ToNumeric: a value that is no number becomes 0
ToNumericOrZero(cell) ==
    CASE cell.k = "num" -> cell
      [] cell.k = "txt" /\ IsDigits(cell.s) -> Num(IntOf(cell.s))
      [] OTHER -> Num(0)

\* pd.to_numeric(errors="coerce") on one cell: a number, the number a numeric
\* text spells, NaN for anything else
ToNumeric(cell) ==
    CASE cell.k = "num" -> cell
      [] cell.k = "txt" /\ IsDigits(cell.s) -> Num(IntOf(cell.s))
      [] OTHER -> NaN

\* the positions in the frame of the columns named name
ColumnsNamed(dfcols, name) == {k \in 1..Len(dfcols) : dfcols[k].name = name}

\* df[name] is a Series only if exactly one column has the name: _clean_text
\* and pd.to_numeric raise on the DataFrame that df[name] is otherwise, and
\* df[name] raises KeyError if no column has it
Raises(cs) ==
    \E name \in Range(cs.id_cols) \cup Range(cs.state_cols) :
        Cardinality(ColumnsNamed(cs.dfcols, name)) # 1

\* the cell of a row of the sheet in the one column of the frame named name
CellOf(cs, row, name) ==
    row[cs.dfcols[CHOOSE k \in ColumnsNamed(cs.dfcols, name) : TRUE].src]

\* one row of df.melt(id_vars=id_cols, value_vars=state_cols, ...), with the
\* year: the cleaned dimension values, the state and the coerced measurement
MeltRow(cs, row, st, yr) ==
    [year |-> yr,
     state |-> st,
     dims |-> [d \in 1..Len(cs.id_cols) |-> _clean_text(CellOf(cs, row, cs.id_cols[d]))],
     separations |-> ToNumeric(CellOf(cs, row, st))]

RECURSIVE Concat(_)
\* the concatenation of a sequence of sequences
Concat(ss) == IF ss = <<>> THEN <<>> ELSE Head(ss) \o Concat(Tail(ss))

\* lines 118-131: dropna on the first dimension column, the melt (one block
\* of rows per state column, in the order of state_cols), dropna on the
\* measurement
Melt(cs, data, yr) ==
    LET HasFirstDim(row) == CellOf(cs, row, cs.id_cols[1]).k # "nan"
        rows == SelectSeq(data, HasFirstDim)
        Measured(rec) == rec.separations.k # "nan"
        block(i) == [r \in 1..Len(rows) |-> MeltRow(cs, rows[r], cs.state_cols[i], yr)]
        Value(rec) == [rec EXCEPT !.separations = rec.separations.n]
    IN  MapSeq(Value, SelectSeq(Concat([i \in 1..Len(cs.state_cols) |-> block(i)]), Measured))

\* parse_sheet on the raw grid of a sheet: kind = "none" (None is returned),
\* "raise" (an exception leaves parse_sheet) or "frame" (the tidy table)
parse_sheet(raw, yr) ==
    LET hdr == _header_row(raw)
        cs == Classify(ReadHeader(raw[hdr + 1]))
        data == SubSeq(raw, hdr + 2, Len(raw))
    IN  IF hdr = NoRow THEN [kind |-> "none", id_cols |-> <<>>, rows |-> <<>>]
        ELSE IF ~Usable(cs) THEN [kind |-> "none", id_cols |-> <<>>, rows |-> <<>>]
        ELSE IF Raises(cs) THEN [kind |-> "raise", id_cols |-> <<>>, rows |-> <<>>]
        ELSE [kind |-> "frame", id_cols |-> cs.id_cols, rows |-> Melt(cs, data, yr)]

-----------------------------------------------------------------------------
(* load: the aggregation *)

\* A table (the unified table, and the aggregated one) is [cols, rows]: cols
\* the names of its dimension columns, rows its records [year, state, dims,
\* separations] with dims[i] the value in column cols[i], Null if missing.

NoTable == [cols |-> <<>>, rows |-> <<>>]

\* a missing value (NaN) in a dimension column; no text is equal to it
Null == <<"NaN">>

\* the characters in the order of their code points
Collation == <<" ", "\"", "(", ")", "+", ",", "-", ".", "/">> \o DigitSeq \o <<":">>
             \o UpperSeq \o <<"_">> \o LowerSeq

CharRank(c) == CHOOSE i \in 1..Len(Collation) : Collation[i] = c

\* a < b for two texts: the order sorted() and groupby(sort=True) use
TextLess(a, b) ==
    LET n == Min(Len(a), Len(b))
        diff == {i \in 1..n : a[i] # b[i]}
        first == CHOOSE i \in diff : \A j \in diff : i <= j
    IN  IF diff = {} THEN Len(a) < Len(b) ELSE CharRank(a[first]) < CharRank(b[first])

\* a < b for two group keys [year, state, dims] with as many dims
KeyLess(a, b) ==
    LET diff == {i \in 1..Len(a.dims) : a.dims[i] # b.dims[i]}
        first == CHOOSE i \in diff : \A j \in diff : i <= j
    IN  IF a.year # b.year THEN a.year < b.year
        ELSE IF a.state # b.state THEN TextLess(a.state, b.state)
        ELSE diff # {} /\ TextLess(a.dims[first], b.dims[first])

RECURSIVE SortKeys(_)
\* the keys of set K in ascending order
SortKeys(K) ==
    IF K = {} THEN <<>>
    ELSE LET least == CHOOSE k \in K : \A o \in K \ {k} : KeyLess(k, o)
         IN  <<least>> \o SortKeys(K \ {least})

\* cats: the positions of the dimension columns with a value that is not null
Cats(df) ==
    LET HasValue(i) == \E r \in 1..Len(df.rows) : df.rows[r].dims[i] # Null
    IN  SelectSeq([i \in 1..Len(df.cols) |-> i], HasValue)

\* df_filled[cats] = df_filled[cats].fillna(""), and the columns the groupby
\* keeps: year, state and cats
GroupKey(rec, cats) ==
    [year |-> rec.year,
     state |-> rec.state,
     dims |-> [i \in 1..Len(cats) |-> IF rec.dims[cats[i]] = Null THEN <<>> ELSE rec.dims[cats[i]]]]

RECURSIVE SumWhere(_, _, _)
\* the sum of separations over the rows of the group of key
SumWhere(rows, cats, key) ==
    IF rows = <<>> THEN 0
    ELSE (IF GroupKey(Head(rows), cats) = key THEN Head(rows).separations ELSE 0)
         + SumWhere(Tail(rows), cats, key)

\* the mutant of GroupSum: the rows of the group are counted
GroupCount(rows, cats, key) ==
    Cardinality({r \in 1..Len(rows) : GroupKey(rows[r], cats) = key})

\* ["separations"].sum() of one group
GroupSum(rows, cats, key) == SumWhere(rows, cats, key)

\* df_filled.groupby(["year", "state", *cats], as_index=False)["separations"].sum():
\* one row per key, in the order of the keys
Aggregate(df) ==
    LET cats == Cats(df)
        keys == SortKeys({GroupKey(df.rows[r], cats) : r \in 1..Len(df.rows)})
    IN  [cols |-> [i \in 1..Len(cats) |-> df.cols[cats[i]]],
         rows |-> [k \in 1..Len(keys) |->
                     [year |-> keys[k].year,
                      state |-> keys[k].state,
                      dims |-> keys[k].dims,
                      separations |-> GroupSum(df.rows, cats, keys[k])]]]

-----------------------------------------------------------------------------
(* discover_excels and compile_all *)

ROOT_PREFIX == <<"h","t","t","p","s",":","/","/","w","w","w",".","a","i","h","w",".","g","o","v",".","a","u">>

FALLBACK_LINKS == <<
    <<"h","t","t","p","s",":","/","/","w","w","w",".","a","i","h","w",".","g","o","v",".","a","u","/","g","e","t","m","e","d","i","a","/","0","4","e","1","1","6","a","4","-","f","5","7","9","-","4","c","d","5","-","b","b","a","f","-","b","3","f","a","6","2","5","6","e","a","4","5","/","4","-","a","d","m","i","t","t","e","d","-","p","a","t","i","e","n","t","-","c","a","r","e","-","2","0","2","2","-","2","3","-","t","a","b","l","e","s","-","a","c","c","e","s","s",".","x","l","s","x">> >>

TABLES_ACCESS == <<"t","a","b","l","e","s","-","a","c","c","e","s","s",".","x","l","s","x">>

ADMITTED == <<"a","d","m","i","t","t","e","d","-","p","a","t","i","e","n","t","-","c","a","r","e">>

\* the links discover_excels makes of the hrefs of the page, in their order
RECURSIVE LinksOf(_)
LinksOf(hrefs) ==
    IF hrefs = <<>> THEN <<>>
    ELSE LET href == Head(hrefs)
         IN  (IF EndsWith(href, TABLES_ACCESS) /\ Contains(href, ADMITTED)
              THEN << IF StartsWith(href, <<"/">>) THEN ROOT_PREFIX \o href ELSE href >>
              ELSE <<>>)
             \o LinksOf(Tail(hrefs))

\* discover_excels: site.ok is whether requests.get returned, site.hrefs the
\* hrefs of the anchors of the page; an exception of requests.get is caught
\* and the page taken to be empty
discover_excels(site) ==
    LET links_ == IF site.ok THEN LinksOf(site.hrefs) ELSE <<>>
    IN  IF links_ # <<>> THEN links_ ELSE FALLBACK_LINKS

\* (\d{4})-(\d{2}) matches at place i of url
YearPatternAt(url, i) ==
    /\ i + 6 <= Len(url)
    /\ \A k \in {0, 1, 2, 3, 5, 6} : IsDigit(url[i + k])
    /\ url[i + 4] = "-"

RECURSIVE YearFromFirstGroup(_, _)
\* the mutant of YearFrom: int(m.group(1)), the four digits
YearFromFirstGroup(url, i) ==
    IF i > Len(url) THEN 9999
    ELSE IF YearPatternAt(url, i) THEN IntOf(SubSeq(url, i, i + 3))
    ELSE YearFromFirstGroup(url, i + 1)

\* re.search from place i on, and int(m.group(2)) + 2000 if m else 9999
RECURSIVE YearFrom(_, _)
YearFrom(url, i) ==
    IF i > Len(url) THEN 9999
    ELSE IF YearPatternAt(url, i) THEN IntOf(SubSeq(url, i + 5, i + 6)) + 2000
    ELSE YearFrom(url, i + 1)

YearOf(url) == YearFrom(url, 1)

\* re.match(r"Table\s*[45S]", s, re.I)
IsTableSheet(name) ==
    LET low == Lower(name)
        rest == LStrip(SubSeq(low, 6, Len(low)), Whitespace)
    IN  /\ StartsWith(low, <<"t","a","b","l","e">>)
        /\ rest # <<>>
        /\ Head(rest) \in {"4", "5", "s"}

\* the sheets of a workbook that compile_all parses, in their order
EligibleSheets(book) ==
    LET Eligible(sheet) == IsTableSheet(sheet.name)
    IN  SelectSeq(book, Eligible)

RECURSIVE UnionCols(_)
\* the columns of pd.concat(frames): those of the frames, in the order in
\* which they first appear
UnionCols(fs) ==
    IF fs = <<>> THEN <<>>
    ELSE LET before == UnionCols(SubSeq(fs, 1, Len(fs) - 1))
             New(c) == c \notin Range(before)
         IN  before \o SelectSeq(fs[Len(fs)].id_cols, New)

\* a record of a frame in the columns cols: a column the frame lacks is null
Realign(rec, id_cols, cols) ==
    [rec EXCEPT !.dims =
        [i \in 1..Len(cols) |->
            IF cols[i] \in Range(id_cols)
            THEN rec.dims[CHOOSE d \in 1..Len(id_cols) : id_cols[d] = cols[i]]
            ELSE Null]]

\* pd.concat(frames, ignore_index=True)
ConcatFrames(fs) ==
    LET cols == UnionCols(fs)
        Rows(f) == [r \in 1..Len(f.rows) |-> Realign(f.rows[r], f.id_cols, cols)]
    IN  [cols |-> cols, rows |-> Concat([k \in 1..Len(fs) |-> Rows(fs[k])])]

NoDb == [persisted |-> FALSE, staging |-> NoTable, clean |-> NoTable]

-----------------------------------------------------------------------------
(* The run of the program has not started in the harness specifications *)

RunIdle ==
    /\ env = <<>>
    /\ links = <<>>
    /\ u = 0
    /\ year = 0
    /\ todo = <<>>
    /\ frames = <<>>
    /\ tidy_df = NoTable
    /\ db = NoDb
    /\ err = ""

-----------------------------------------------------------------------------
(* Harness of _header_row *)

RowTitle == <<Txt(<<"T","a","b","l","e"," ","4">>), NaN, NaN>>

RowOneCode == <<Txt(<<"S","A">>), NaN, Num(5)>>

RowHeader == <<NaN, Txt(<<"N","S","W">>), Txt(<<"V","i","c">>)>>

RowSameCode == <<Txt(<<"N",".","T",".">>), Txt(<<"N","T">>), NaN>>

RowKinds == {RowTitle, RowOneCode, RowHeader, RowSameCode}

\* a grid of n rows, all title rows but row p (kind kp) and row q (kind kq);
\* the grids have their special rows near the end, or the first and one
\* near the end
GridOf(n, p, kp, q, kq) ==
    [i \in 1..n |-> IF i = p THEN kp ELSE IF i = q THEN kq ELSE RowTitle]

HeaderGrids ==
    {<<>>} \cup
    { GridOf(n, n - back, kp, IF far THEN 1 ELSE n, kq) :
        n \in 1..MaxRows, back \in 0..2, kp \in RowKinds,
        far \in BOOLEAN, kq \in {RowTitle, RowHeader} }

InitHeader ==
    /\ pc = "call"
    /\ arg \in HeaderGrids
    /\ ret = NoRow
    /\ RunIdle

CallHeaderRow ==
    /\ pc = "call"
    /\ ret' = _header_row(arg)
    /\ pc' = "done"
    /\ UNCHANGED <<arg, runvars>>

NextHeader == CallHeaderRow

SpecHeader == InitHeader /\ [][NextHeader]_vars

\* the rows of grid df, numbered from 0, that are among the first 40 and
\* hold at least two cells that normalize to a state code
QualifyingRows(df) ==
    { i \in 0..(Len(df) - 1) :
        /\ i < 40
        /\ \E j1, j2 \in 1..Len(df[i + 1]) :
             /\ j1 # j2
             /\ _norm_state(df[i + 1][j1]) \in STATE_CODES
             /\ _norm_state(df[i + 1][j2]) \in STATE_CODES }

\* C1: _header_row returns the smallest row index i < 40 whose row holds at
\* least two cells normalizing to a state code, and none when no row among
\* the first 40 qualifies, even if a later row (the 41st) does.
C1_HeaderRowFirstInWindow ==
    pc = "done" =>
        IF QualifyingRows(arg) = {}
        THEN ret = NoRow
        ELSE /\ ret \in QualifyingRows(arg)
             /\ \A i \in QualifyingRows(arg) : ret <= i

\* a grid whose only qualifying row is the 41st (index 40): none is returned
C1_Witness ==
    /\ pc = "done"
    /\ Len(arg) >= 41
    /\ StateCount(arg[41]) >= 2
    /\ \A i \in 1..40 : StateCount(arg[i]) < 2
    /\ ret = NoRow

-----------------------------------------------------------------------------
(* Harness of _clean_text *)

\* longest text given to _clean_text
MaxTextLen == 4

TextAlphabet == {"(", ")", "\"", ",", " ", "1", "a"}

RECURSIVE TextsUpTo(_)
TextsUpTo(n) ==
    IF n = 0 THEN {<<>>}
    ELSE LET shorter == TextsUpTo(n - 1)
         IN  shorter \cup {Append(t, c) : t \in shorter, c \in TextAlphabet}

InitClean ==
    /\ pc = "call"
    /\ arg \in TextsUpTo(MaxTextLen)
    /\ ret = [once |-> <<>>, twice |-> <<>>]
    /\ RunIdle

\* the series is cleaned, and the cleaned series is cleaned again
CallCleanText ==
    /\ pc = "call"
    /\ ret' = [once |-> _clean_text(Txt(arg)),
               twice |-> _clean_text(Txt(_clean_text(Txt(arg))))]
    /\ pc' = "done"
    /\ UNCHANGED <<arg, runvars>>

NextClean == CallCleanText

SpecClean == InitClean /\ [][NextClean]_vars

\* C5: _clean_text is idempotent: clean(clean(x)) = clean(x) for every text x.
C5_CleanIdempotent == pc = "done" => ret.twice = ret.once

-----------------------------------------------------------------------------
(* Harness of the classification of the columns *)

\* most columns of a header given to the classification
MaxCols == 3

L_Unnamed0 == <<"U","n","n","a","m","e","d",":"," ","0">>

L_Unnamed1 == <<"U","n","n","a","m","e","d",":"," ","1">>

L_Category == <<"C","a","t","e","g","o","r","y">>

L_Principal == <<"P","r","i","n","c","i","p","a","l"," ","d","i","a","g","n","o","s","i","s">>

L_AgeGroup == <<"A","g","e"," ","g","r","o","u","p">>

L_Total == <<"T","o","t","a","l">>

L_NSW == <<"N","S","W">>

L_NSW1 == <<"N","S","W",".","1">>

L_Vic == <<"V","i","c">>

Labels == {L_Unnamed0, L_Unnamed1, L_Category, L_Principal, L_AgeGroup, L_Total,
           L_NSW, L_NSW1, L_Vic}

RECURSIVE LabelLists(_)
LabelLists(n) ==
    IF n = 0 THEN {<<>>}
    ELSE LET shorter == LabelLists(n - 1)
         IN  shorter \cup {Append(t, c) : t \in shorter, c \in Labels}

NoColumns == [dfcols |-> <<>>, id_cols |-> <<>>, state_cols |-> <<>>]

InitClassify ==
    /\ pc = "call"
    /\ arg \in LabelLists(MaxCols)
    /\ ret = [renamed |-> NoColumns, final |-> NoColumns, usable |-> FALSE]
    /\ RunIdle

\* ret.renamed: the columns before line 110; ret.final: at line 115
CallClassify ==
    /\ pc = "call"
    /\ ret' = [renamed |-> RenameLaterUnnamed(RenameFirstUnnamed(ClassifyColumns(arg))),
               final |-> Classify(arg),
               usable |-> Usable(Classify(arg))]
    /\ pc' = "done"
    /\ UNCHANGED <<arg, runvars>>

NextClassify == CallClassify

SpecClassify == InitClassify /\ [][NextClassify]_vars

\* the columns of the sheet whose label is the first with its text
Columns(cols) == {i \in 1..Len(cols) : \A j \in 1..(i - 1) : cols[j] # cols[i]}

\* the label, upper-cased and stripped of all but A-Z, is a region code
IsStateLabel(label) == NormLetters(label) \in STATE_CODES

\* the label is a literal "total"
IsTotalLabel(label) == Safe(label) = TOTAL

\* the names the frame gives the column that is at position i in the sheet
NamesOf(dfcols, i) == {dfcols[k].name : k \in {k \in 1..Len(dfcols) : dfcols[k].src = i}}

\* C3: every column gets exactly one role: a column whose label normalizes to
\* a region code is a state column keyed by that code and never a dimension
\* column; a literal "total" column is in neither list; every other column is
\* a dimension column.
C3_ColumnRoles ==
    pc = "done" =>
        LET cs == ret.final
            states == {i \in Columns(arg) : IsStateLabel(arg[i])}
            totals == {i \in Columns(arg) : ~IsStateLabel(arg[i]) /\ IsTotalLabel(arg[i])}
            dims == Columns(arg) \ (states \cup totals)
        IN  /\ \A i \in states :
                /\ NamesOf(cs.dfcols, i) = {NormLetters(arg[i])}
                /\ NormLetters(arg[i]) \in Range(cs.state_cols)
                /\ NormLetters(arg[i]) \notin Range(cs.id_cols)
            /\ \A i \in totals :
                /\ NamesOf(cs.dfcols, i) = {}
                /\ TOTAL \notin Range(cs.id_cols)
                /\ TOTAL \notin Range(cs.state_cols)
            /\ \A i \in dims :
                /\ Cardinality(NamesOf(cs.dfcols, i)) = 1
                /\ NamesOf(cs.dfcols, i) \subseteq Range(cs.id_cols)
                /\ NamesOf(cs.dfcols, i) \cap Range(cs.state_cols) = {}
            /\ Len(cs.state_cols) = Cardinality(states)
            /\ Len(cs.id_cols) = Cardinality(dims)

\* a header with a state column written "Vic", a "Total" column and a
\* dimension column has been classified
C3_Witness ==
    /\ pc = "done"
    /\ L_Vic \in Range(arg)
    /\ L_Total \in Range(arg)
    /\ L_AgeGroup \in Range(arg)
    /\ Len(ret.final.state_cols) >= 1
    /\ Len(ret.final.id_cols) >= 1

\* the indices, in id_cols before any renaming, of the anonymous columns
Anonymous(cols) ==
    LET ids == ClassifyColumns(cols).id_cols
    IN  {i \in 1..Len(ids) : StartsWith(ids[i], UNNAMED)}

\* C4: the first anonymous dimension column is named "category"; a second is
\* named "principal_diagnosis" if that name is not already taken, and
\* "dimension_{index}" otherwise, wherever the anonymous columns sit among
\* the dimension columns.
C4_PositionalRenaming ==
    pc = "done" =>
        LET anon == Anonymous(arg)
            ids == ret.renamed.id_cols
            before == ClassifyColumns(arg).id_cols
        IN  \A a \in anon :
              /\ Cardinality({b \in anon : b < a}) = 0 => ids[a] = CATEGORY
              /\ Cardinality({b \in anon : b < a}) = 1 =>
                    ids[a] = IF PRINCIPAL_DIAGNOSIS \in Range(before)
                             THEN DIMENSION_ \o DigitsOf(a - 1)
                             ELSE PRINCIPAL_DIAGNOSIS

Distinct(seq) == \A i, j \in 1..Len(seq) : i # j => seq[i] # seq[j]

\* C10: for every header parse_sheet accepts (does not return None for) the
\* dimension column names are pairwise distinct and the state codes are
\* pairwise distinct.
C10_DistinctColumns ==
    (pc = "done" /\ ret.usable) =>
        /\ Distinct(ret.final.id_cols)
        /\ Distinct(ret.final.state_cols)

-----------------------------------------------------------------------------
(* Harness of parse_sheet *)

\* most data rows under the header of a sheet
MaxDataRows == 2

T_Category == Txt(<<"C","a","t","e","g","o","r","y">>)

T_Total == Txt(<<"T","o","t","a","l">>)

T_NSW == Txt(<<"N","S","W">>)

T_QLD == Txt(<<"Q","L","D">>)

T_Vic == Txt(<<"V","i","c">>)

T_Infectious == Txt(<<"I","n","f","e","c","t","i","o","u","s">>)

T_Injury == Txt(<<"I","n","j","u","r","y">>)

T_InjuryTuple == Txt(<<"(","\"","I","n","j","u","r","y","\"",","," ","5",")">>)

T_na == Txt(<<"n","/","a">>)

T_20 == Txt(<<"2","0">>)

\* header rows: one dimension, three states and Total; all labels blank but
\* the states; a state twice; two states and Total twice; the dimension last
HeaderRows == {
    <<T_Category, T_NSW, T_QLD, T_Vic, T_Total>>,
    <<NaN, T_NSW, T_QLD, T_Vic, NaN>>,
    <<T_Category, T_NSW, T_NSW, T_Vic, T_Total>>,
    <<T_Category, T_NSW, T_QLD, T_Total, T_Total>>,
    <<T_Total, T_NSW, T_QLD, T_Vic, NaN>> }

TitleRow == <<Txt(<<"T","a","b","l","e"," ","4">>), NaN, NaN, NaN, NaN>>

DataRows == {
    <<T_Infectious, Num(10), Num(20), Num(30), Num(60)>>,
    <<T_Injury, Num(5), T_na, NaN, Num(5)>>,
    <<NaN, Num(1), Num(2), Num(3), Num(6)>>,
    <<T_InjuryTuple, Num(0), T_20, Num(5), T_Injury>> }

RECURSIVE DataUpTo(_)
DataUpTo(n) ==
    IF n = 0 THEN {<<>>}
    ELSE LET shorter == DataUpTo(n - 1)
         IN  shorter \cup {Append(t, r) : t \in shorter, r \in DataRows}

\* the raw grids: title rows, a header row or none, data rows
SheetGrids ==
    { titles \o header \o data :
        titles \in {<<>>, <<TitleRow>>, <<TitleRow, TitleRow>>},
        header \in {<<>>} \cup {<<h>> : h \in HeaderRows},
        data \in DataUpTo(MaxDataRows) }

NoFrame == [kind |-> "none", id_cols |-> <<>>, rows |-> <<>>]

InitReshape ==
    /\ pc = "call"
    /\ arg \in [raw : SheetGrids, year : {2023}]
    /\ ret = NoFrame
    /\ RunIdle

CallParseSheet ==
    /\ pc = "call"
    /\ ret' = parse_sheet(arg.raw, arg.year)
    /\ pc' = "done"
    /\ UNCHANGED <<arg, runvars>>

NextReshape == CallParseSheet

SpecReshape == InitReshape /\ [][NextReshape]_vars

\* the number of elements of seq equal to x
Count(seq, x) == Cardinality({i \in 1..Len(seq) : seq[i] = x})

\* the cell holds a number, or text that spells one
IsNumeric(cell) == cell.k = "num" \/ (cell.k = "txt" /\ IsDigits(cell.s))

NumericValue(cell) == IF cell.k = "num" THEN cell.n ELSE IntOf(cell.s)

\* C2: for an accepted sheet with 1 dimension column and 3 state columns,
\* reshaping with year Y yields exactly one record (Y, state, dimension
\* value, value) for each pair (data row, state column) whose cell is
\* numeric; a non-numeric cell yields no record (and no record with
\* separations 0), and the "Total" column yields no records.  The data rows
\* are the rows under the header whose dimension cell is not blank.
C2_ReshapeRecords ==
    (pc = "done" /\ ret.kind = "frame") =>
        LET raw == arg.raw
            h == _header_row(raw) + 1
            labels == ReadHeader(raw[h])
            states == {j \in 1..Len(labels) : IsStateLabel(labels[j])}
            dims == {j \in 1..Len(labels) : ~IsStateLabel(labels[j]) /\ ~IsTotalLabel(labels[j])}
            d == CHOOSE j \in dims : TRUE
            datarows == {r \in (h + 1)..Len(raw) : raw[r][d].k # "nan"}
            pairs == {<<r, j>> \in datarows \X states : IsNumeric(raw[r][j])}
            Record(r, j) == [year |-> arg.year,
                             state |-> NormLetters(labels[j]),
                             dims |-> <<CleanStr(Str(raw[r][d]))>>,
                             separations |-> NumericValue(raw[r][j])]
        IN  (Cardinality(dims) = 1 /\ Cardinality(states) = 3) =>
              /\ Len(ret.rows) = Cardinality(pairs)
              /\ \A p \in pairs :
                    Count(ret.rows, Record(p[1], p[2])) =
                        Cardinality({q \in pairs : Record(q[1], q[2]) = Record(p[1], p[2])})
              /\ \A i \in 1..Len(ret.rows) :
                    ret.rows[i].state \in {NormLetters(labels[j]) : j \in states}

\* the sheet of the spec's scenario, with a title row above the header:
\* Category, NSW, QLD, Vic, Total; the n/a and the blank cell give no record
C2_Witness ==
    /\ pc = "done"
    /\ ret.kind = "frame"
    /\ arg.raw = << TitleRow,
                    <<T_Category, T_NSW, T_QLD, T_Vic, T_Total>>,
                    <<T_Infectious, Num(10), Num(20), Num(30), Num(60)>>,
                    <<T_Injury, Num(5), T_na, NaN, Num(5)>> >>
    /\ Len(ret.rows) = 4

-----------------------------------------------------------------------------
(* Harness of the aggregation *)

\* most records of a unified table given to the aggregation
MaxRecs == 2

RecordPool ==
    [year : {2023},
     state : {<<"N","S","W">>, <<"V","I","C">>},
     dims : {<<<<"I","n","j","u","r","y">>>>, <<Null>>, <<<<>>>>} \X {<<Null>>, <<<<"x">>>>},
     separations : {1, 2}]

\* the pool's dims are pairs of one-element tuples: flattened to two values
Flat(rec) == [rec EXCEPT !.dims = <<rec.dims[1][1], rec.dims[2][1]>>]

RECURSIVE RecordsUpTo(_)
RecordsUpTo(n) ==
    IF n = 0 THEN {<<>>}
    ELSE LET shorter == RecordsUpTo(n - 1)
         IN  shorter \cup {Append(t, Flat(r)) : t \in shorter, r \in RecordPool}

UnifiedTables == [cols : {<<CATEGORY, PRINCIPAL_DIAGNOSIS>>}, rows : RecordsUpTo(MaxRecs)]

InitReduce ==
    /\ pc = "call"
    /\ arg \in UnifiedTables
    /\ ret = [once |-> NoTable, twice |-> NoTable]
    /\ RunIdle

\* the table is aggregated, and the aggregated table is aggregated again
CallAggregate ==
    /\ pc = "call"
    /\ ret' = [once |-> Aggregate(arg), twice |-> Aggregate(Aggregate(arg))]
    /\ pc' = "done"
    /\ UNCHANGED <<arg, runvars>>

NextReduce == CallAggregate

SpecReduce == InitReduce /\ [][NextReduce]_vars

\* C6: the aggregation outputs a table in which no two rows share the key
\* (year, state, dimension values), and aggregating its output again yields
\* an identical table.
C6_AggregateKeyedIdempotent ==
    pc = "done" =>
        /\ \A i, j \in 1..Len(ret.once.rows) :
              (/\ ret.once.rows[i].year = ret.once.rows[j].year
               /\ ret.once.rows[i].state = ret.once.rows[j].state
               /\ ret.once.rows[i].dims = ret.once.rows[j].dims) => i = j
        /\ ret.twice = ret.once

\* two records that differ only by a missing and an empty dimension value
\* have been summed into one row
C6_Witness ==
    /\ pc = "done"
    /\ Len(arg.rows) = 2
    /\ arg.rows[1].dims = <<Null, <<"x">>>>
    /\ arg.rows[2].dims = <<<<>>, <<"x">>>>
    /\ Len(ret.once.rows) = 1
    /\ ret.once.rows[1].separations = arg.rows[1].separations + arg.rows[2].separations

-----------------------------------------------------------------------------
(* The run of the program: __main__, compile_all, load *)

H_2021 == <<"/","g","e","t","m","e","d","i","a","/","a","1","/","a","d","m","i","t","t","e","d","-","p","a","t","i","e","n","t","-","c","a","r","e","-","2","0","2","1","-","2","2","-","t","a","b","l","e","s","-","a","c","c","e","s","s",".","x","l","s","x">>

H_TwoYears == <<"h","t","t","p","s",":","/","/","d","a","t","a",".","g","o","v",".","a","u","/","a","d","m","i","t","t","e","d","-","p","a","t","i","e","n","t","-","c","a","r","e","-","2","0","2","1","-","2","2","-","t","o","-","2","0","2","2","-","2","3","-","t","a","b","l","e","s","-","a","c","c","e","s","s",".","x","l","s","x">>

H_NoYear == <<"/","g","e","t","m","e","d","i","a","/","b","2","/","a","d","m","i","t","t","e","d","-","p","a","t","i","e","n","t","-","c","a","r","e","-","t","a","b","l","e","s","-","a","c","c","e","s","s",".","x","l","s","x">>

H_Surgery == <<"/","g","e","t","m","e","d","i","a","/","c","3","/","e","l","e","c","t","i","v","e","-","s","u","r","g","e","r","y","-","2","0","2","2","-","2","3","-","t","a","b","l","e","s","-","a","c","c","e","s","s",".","x","l","s","x">>

\* what requests.get(ROOT_URL) meets: a failure, or a page with these hrefs
Sites == {
    [ok |-> FALSE, hrefs |-> <<>>],
    [ok |-> TRUE, hrefs |-> <<>>],
    [ok |-> TRUE, hrefs |-> <<H_Surgery>>],
    [ok |-> TRUE, hrefs |-> <<H_2021, H_Surgery>>],
    [ok |-> TRUE, hrefs |-> <<H_TwoYears, H_NoYear>>],
    [ok |-> TRUE, hrefs |-> <<H_NoYear, H_2021, H_TwoYears>>] }

\* the highest index of a download on which requests.get may raise
MaxFailAt == 3

T_WA == Txt(<<"W","A">>)

GoodGrid == << TitleRow,
               <<T_Category, T_NSW, T_QLD, T_Vic, T_Total>>,
               <<T_Infectious, Num(10), Num(20), Num(30), Num(60)>>,
               <<T_Injury, Num(5), T_na, NaN, Num(5)>> >>

TwoDimsGrid == << <<NaN, T_NSW, T_QLD, T_Vic, NaN>>,
                  <<T_Injury, Num(5), T_na, NaN, T_Infectious>> >>

NoHeaderGrid == << TitleRow, <<T_Infectious, Num(10), Num(20), Num(30), Num(60)>> >>

NoDimsGrid == << <<T_Total, T_NSW, T_QLD, T_Vic, T_WA>>,
                 <<Num(60), Num(10), Num(20), Num(30), Num(0)>> >>

NoValuesGrid == << <<T_Category, T_NSW, T_QLD, T_Vic, T_Total>>,
                   <<T_Injury, T_na, T_na, NaN, Num(5)>> >>

SameStateGrid == << <<T_Category, T_NSW, T_NSW, T_Vic, T_Total>>,
                    <<T_Infectious, Num(10), Num(20), Num(30), Num(60)>> >>

N_Table41 == <<"T","a","b","l","e"," ","4",".","1">>

N_Notes == <<"N","o","t","e","s">>

N_tableS2 == <<"t","a","b","l","e"," ","S","2">>

N_Table5 == <<"T","a","b","l","e","5">>

N_Table6 == <<"T","a","b","l","e"," ","6">>

\* the workbooks a download may return, each the list of its sheets
Books == {
    << [name |-> N_Notes, raw |-> GoodGrid],
       [name |-> N_Table5, raw |-> NoHeaderGrid],
       [name |-> N_Table41, raw |-> GoodGrid] >>,
    << [name |-> N_tableS2, raw |-> NoDimsGrid],
       [name |-> N_Table41, raw |-> NoValuesGrid],
       [name |-> N_Table6, raw |-> GoodGrid] >>,
    << [name |-> N_tableS2, raw |-> TwoDimsGrid] >>,
    << [name |-> N_Table41, raw |-> SameStateGrid],
       [name |-> N_Table5, raw |-> GoodGrid] >> }

\* env.db_url: DB_URL is set; env.site: what the discovery meets; env.fail_at:
\* the download (its index in links) on which requests.get raises, 0 if none
Init ==
    /\ pc = "main"
    /\ arg = <<>>
    /\ ret = <<>>
    /\ env \in [db_url : BOOLEAN, site : Sites, fail_at : 0..MaxFailAt]
    /\ links = <<>>
    /\ u = 0
    /\ year = 0
    /\ todo = <<>>
    /\ frames = <<>>
    /\ tidy_df = NoTable
    /\ db = NoDb
    /\ err = ""

\* if not DB_URL: raise SystemExit
MainNoDbUrl ==
    /\ pc = "main"
    /\ ~env.db_url
    /\ err' = "SystemExit"
    /\ pc' = "exit"
    /\ UNCHANGED <<arg, ret, env, links, u, year, todo, frames, tidy_df, db>>

\* compile_all() is called: frames = [] and discover_excels() of the for loop
MainCompile ==
    /\ pc = "main"
    /\ env.db_url
    /\ links' = discover_excels(env.site)
    /\ frames' = <<>>
    /\ u' = 1
    /\ pc' = "download"
    /\ UNCHANGED <<arg, ret, env, year, todo, tidy_df, db, err>>

\* the mutant of DownloadFails: the exception is caught and the workbook skipped
DownloadFailsSkipped ==
    /\ pc = "download"
    /\ u <= Len(links)
    /\ env.fail_at = u
    /\ u' = u + 1
    /\ UNCHANGED <<pc, arg, ret, env, links, year, todo, frames, tidy_df, db, err>>

\* requests.get(url) raises: nothing catches it, the run ends
DownloadFails ==
    /\ pc = "download"
    /\ u <= Len(links)
    /\ env.fail_at = u
    /\ err' = "RequestException"
    /\ pc' = "exit"
    /\ UNCHANGED <<arg, ret, env, links, u, year, todo, frames, tidy_df, db>>

\* the workbook is downloaded and opened, the year taken from the url and
\* the sheets to parse selected
DownloadOK ==
    /\ pc = "download"
    /\ u <= Len(links)
    /\ env.fail_at # u
    /\ \E book \in Books : todo' = EligibleSheets(book)
    /\ year' = YearOf(links[u])
    /\ pc' = "sheets"
    /\ UNCHANGED <<arg, ret, env, links, u, frames, tidy_df, db, err>>

\* parse_sheet returned a table that is not empty: frames.append(df)
SheetAppended ==
    /\ pc = "sheets"
    /\ todo # <<>>
    /\ LET df == parse_sheet(Head(todo).raw, year)
       IN  /\ df.kind = "frame"
           /\ df.rows # <<>>
           /\ frames' = Append(frames, [id_cols |-> df.id_cols, rows |-> df.rows])
    /\ todo' = Tail(todo)
    /\ UNCHANGED <<pc, arg, ret, env, links, u, year, tidy_df, db, err>>

\* parse_sheet returned None or an empty table: the sheet is skipped
SheetSkipped ==
    /\ pc = "sheets"
    /\ todo # <<>>
    /\ LET df == parse_sheet(Head(todo).raw, year)
       IN  df.kind = "none" \/ (df.kind = "frame" /\ df.rows = <<>>)
    /\ todo' = Tail(todo)
    /\ UNCHANGED <<pc, arg, ret, env, links, u, year, frames, tidy_df, db, err>>

\* an exception leaves parse_sheet: nothing catches it, the run ends
SheetRaises ==
    /\ pc = "sheets"
    /\ todo # <<>>
    /\ parse_sheet(Head(todo).raw, year).kind = "raise"
    /\ err' = "TypeError"
    /\ pc' = "exit"
    /\ UNCHANGED <<arg, ret, env, links, u, year, todo, frames, tidy_df, db>>

\* the sheets of the workbook are done: the next url
NextWorkbook ==
    /\ pc = "sheets"
    /\ todo = <<>>
    /\ u' = u + 1
    /\ pc' = "download"
    /\ UNCHANGED <<arg, ret, env, links, year, todo, frames, tidy_df, db, err>>

\* if not frames: raise RuntimeError
CompiledEmpty ==
    /\ pc = "download"
    /\ u > Len(links)
    /\ frames = <<>>
    /\ err' = "RuntimeError"
    /\ pc' = "exit"
    /\ UNCHANGED <<arg, ret, env, links, u, year, todo, frames, tidy_df, db>>

\* compile_all returns pd.concat(frames)
CompiledOK ==
    /\ pc = "download"
    /\ u > Len(links)
    /\ frames # <<>>
    /\ tidy_df' = ConcatFrames(frames)
    /\ pc' = "load"
    /\ UNCHANGED <<arg, ret, env, links, u, year, todo, frames, db, err>>

\* load: both relations are written in one transaction, which commits
LoadOK ==
    /\ pc = "load"
    /\ db' = [persisted |-> TRUE, staging |-> tidy_df, clean |-> Aggregate(tidy_df)]
    /\ pc' = "finished"
    /\ UNCHANGED <<arg, ret, env, links, u, year, todo, frames, tidy_df, err>>

\* load: the engine or a write raises, the transaction of eng.begin() is
\* rolled back
LoadFails ==
    /\ pc = "load"
    /\ err' = "DBError"
    /\ pc' = "exit"
    /\ UNCHANGED <<arg, ret, env, links, u, year, todo, frames, tidy_df, db>>

Next ==
    \/ MainNoDbUrl
    \/ MainCompile
    \/ DownloadFails
    \/ DownloadOK
    \/ SheetAppended
    \/ SheetSkipped
    \/ SheetRaises
    \/ NextWorkbook
    \/ CompiledEmpty
    \/ CompiledOK
    \/ LoadOK
    \/ LoadFails

Spec == Init /\ [][Next]_vars

-----------------------------------------------------------------------------
(* Claims about the run *)

Y2022_23 == <<"2","0","2","2","-","2","3">>

\* the places of url where four digits, a dash and two digits stand
YearPatterns(url) ==
    {i \in 1..(Len(url) - 6) :
        /\ \A k \in {0, 1, 2, 3, 5, 6} : url[i + k] \in Range(DigitSeq)
        /\ url[i + 4] = "-"}

\* the rows of the table the step has appended to frames
Appended(fs) == Range(fs[Len(fs)].rows)

\* C7 as stated: every record of a sheet of a workbook source whose name
\* contains "2022-23" has year 2023, whatever else the name contains; a
\* source with no 4-digit-dash-2-digit pattern gets 9999 on all its records
\* and does not fail the run.
C7_YearFromName ==
    [][ /\ (pc = "download" /\ pc' = "sheets" /\ YearPatterns(links[u]) = {}) =>
              (year' = 9999 /\ err' = "")
        /\ (Len(frames') > Len(frames)) =>
              \A rec \in Appended(frames') :
                 /\ Contains(links[u], Y2022_23) => rec.year = 2023
                 /\ YearPatterns(links[u]) = {} => rec.year = 9999 ]_vars

\* C7 amended: the leftmost 4-digit-dash-2-digit pattern of the url decides:
\* every record of the source has year 2000 + the two digits after its dash
\* (2023 when the leftmost pattern is "2022-23"); a source whose url holds
\* no such pattern gets 9999 on all its records and does not fail the run.
C7_YearFromLeftmostPattern ==
    [][ /\ (pc = "download" /\ pc' = "sheets" /\ YearPatterns(links[u]) = {}) =>
              (year' = 9999 /\ err' = "")
        /\ (Len(frames') > Len(frames)) =>
              \A rec \in Appended(frames') :
                 /\ YearPatterns(links[u]) = {} => rec.year = 9999
                 /\ \A i \in YearPatterns(links[u]) :
                       (\A j \in YearPatterns(links[u]) : i <= j) =>
                          /\ rec.year = 2000 + 10 * DigitVal(links[u][i + 5])
                                             + DigitVal(links[u][i + 6])
                          /\ SubSeq(links[u], i, i + 6) = Y2022_23 => rec.year = 2023 ]_vars

\* a sheet of the fallback workbook, whose leftmost pattern is 2022-23, has
\* given records, all of year 2023
C7_Witness ==
    /\ pc = "sheets"
    /\ links = FALLBACK_LINKS
    /\ frames # <<>>
    /\ year = 2023
    /\ \A rec \in Appended(frames) : rec.year = 2023

\* compile_all has returned or raised
CompileEnded ==
    \/ pc \in {"load", "finished"}
    \/ pc = "exit" /\ err \in {"RuntimeError", "TypeError", "DBError"}

\* C8: compile_all fails with the EmptyCompilation error (RuntimeError) if
\* and only if no eligible sheet of any source yields a table that is not
\* empty; an unusable sheet is skipped without raising and does not prevent
\* later sheets and workbooks from being processed.
C8_EmptyCompilationIff ==
    /\ CompileEnded => (err = "RuntimeError" <=> frames = <<>>)
    /\ (pc = "load" /\ err = "") =>
          Len(tidy_df.rows) = Len(Concat([k \in 1..Len(frames) |-> frames[k].rows]))

\* discover_excels has been called
Discovered == pc # "main" /\ err # "SystemExit"

\* the download of index env.fail_at has been tried
FailedDownloadTried ==
    /\ Discovered
    /\ env.fail_at \in 1..Len(links)
    /\ u > env.fail_at \/ (u = env.fail_at /\ pc # "download")

\* a failed download ends the run with its exception, at that download
DownloadFailureAborts ==
    FailedDownloadTried =>
        /\ pc = "exit"
        /\ err = "RequestException"
        /\ u = env.fail_at

\* the relations are persisted only by a run that compiled every workbook
PersistedOnlyWhenCompiled ==
    /\ db.persisted =>
          /\ pc = "finished"
          /\ err = ""
          /\ u = Len(links) + 1
          /\ db.staging = tidy_df
          /\ tidy_df = ConcatFrames(frames)
    /\ (pc # "finished") => db = NoDb

\* C9 as stated: a failure of any network retrieval (the discovery or a
\* download) propagates and aborts the run, without being masked or retried,
\* and no table is persisted in a run that did not compile all workbooks.
C9_RetrievalFailureAborts ==
    /\ (~env.site.ok /\ Discovered) => (pc = "exit" /\ err = "RequestException")
    /\ DownloadFailureAborts
    /\ PersistedOnlyWhenCompiled

\* C9 amended: a failure of a workbook download propagates and aborts the
\* run, without being masked or retried; a failure of the discovery does
\* not: it is caught and the run goes on with FALLBACK_LINKS; no table is
\* persisted in a run that did not compile all workbooks.
C9_DownloadFailureAborts ==
    /\ (~env.site.ok /\ Discovered) => links = FALLBACK_LINKS
    /\ DownloadFailureAborts
    /\ PersistedOnlyWhenCompiled

\* the second download failed after the first workbook had given records:
\* the run has ended with the exception and nothing is persisted
C9_Witness ==
    /\ pc = "exit"
    /\ err = "RequestException"
    /\ env.fail_at = 2
    /\ frames # <<>>
    /\ db = NoDb

====
